---- MODULE Spec2Model ----
(***************************************************************************)
(* The annotate.py script, in its two variants:                            *)
(*   "multi"  = src/annotations/annotate.py      (one label per issue)     *)
(*   "single" = src/app/annotations/annotate.py  (first issue only,        *)
(*                                                coloured by severity)    *)
(* A run of main() is a sequence of steps over the file system: the        *)
(* argument check, the clearing of the output directory, the loading of    *)
(* the diff report, and one step per entry of `differences`.               *)
(***************************************************************************)
EXTENDS Integers, Sequences, FiniteSets, TLC

VARIABLES
    variant,     \* which of the two scripts runs
    args,        \* sys.argv[1:], a sequence of paths
    outKind,     \* what the output directory path is on disk: "absent", "dir", "file"
    dir,         \* the files inside the output directory
    diffDoc,     \* the `differences` list held by the valid diff report on disk
    textSize,    \* the font's measure: text -> <<width, height>> (draw.textbbox)
    pc,          \* position in main(): "start", "clear", "load", "loop", "done"
    idx,         \* enumerate() position in the entry loop
    entries,     \* the local `entries`
    status,      \* the process's exit status once pc = "done"
    error,       \* what terminated the process
    stdout,      \* what was printed
    runNo,       \* 1 for the first run of main(), 2 for the re-run
    before       \* the output directory as it was when this run of main() started

vars == <<variant, args, outKind, dir, diffDoc, textSize, pc, idx, entries,
          status, error, stdout, runNo, before>>

----------------------------------------------------------------------------
(* Bounds of the model *)

MaxEntries == 3
MaxRefs == 2
MaxIssues == 3

(* Constants of the program *)

NumRenders == 4
THUMB == 1024
PADDING == 8
LabelGap == 8
BgPad == 4

Variants == {"multi", "single"}

----------------------------------------------------------------------------
(* Paths and the file system outside the output directory *)

ExtPath(n) == [inOut |-> FALSE, name |-> n]
OutPath(n) == [inOut |-> TRUE, name |-> n]

GoodImage == ExtPath("img.png")
GoneImage == ExtPath("gone.png")
GoodDiff == ExtPath("diff.json")
BadDiff == ExtPath("bad.json")
GoneDiff == ExtPath("nodiff.json")
OutDirPath == ExtPath("out")

\* The kind of the file at a path outside the output directory ("none": no file).
ExtKind(n) ==
    CASE n = "img.png" -> "image"
      [] n = "diff.json" -> "json"
      [] n = "bad.json" -> "garbage"
      [] OTHER -> "none"

\* A file left in the output directory by something other than this run.
Stale(n, k) ==
    [name |-> n, kind |-> k, run |-> 0, src |-> -1, canvas |-> <<0, 0>>,
     mode |-> "", labels |-> <<>>]

Names(d) == {fl.name : fl \in d}

\* The kind of the file at path p, "none" when there is no such file.
KindAt(p, kind, d) ==
    IF p.inOut
      THEN IF kind = "dir" /\ \E fl \in d : fl.name = p.name
             THEN (CHOOSE fl \in d : fl.name = p.name).kind
             ELSE "none"
      ELSE ExtKind(p.name)

----------------------------------------------------------------------------
(* JSON values of a diff entry: a key is present or absent *)

Some(v) == [present |-> TRUE, v |-> v]
NoInt == [present |-> FALSE, v |-> 0]
NoStr == [present |-> FALSE, v |-> ""]
NoBox == [present |-> FALSE, v |-> <<0, 0, 0, 0>>]

StrVal(s) == [kind |-> "str", s |-> s, l |-> <<>>]
ListVal(l) == [kind |-> "list", s |-> "", l |-> l]
NoIssues == [present |-> FALSE, v |-> ListVal(<<>>)]

\* dict.get(key, default)
Get(opt, default) == IF opt.present THEN opt.v ELSE default

\* Python truth value of a string or a list
Truthy(v) == IF v.kind = "list" THEN v.l # <<>> ELSE v.s # ""

\* x if isinstance(x, list) else [x]
AsList(v) == IF v.kind = "list" THEN v.l ELSE <<v.s>>

----------------------------------------------------------------------------
(* Python list indexing and slicing *)

Min(a, b) == IF a < b THEN a ELSE b

PyHas(list, i) == -Len(list) <= i /\ i < Len(list)
PyGet(list, i) == IF i >= 0 THEN list[i + 1] ELSE list[Len(list) + i + 1]

\* Mutant: the argument check is off by one.
UsageErrorLax(a) == Len(a) < 2

UsageError(a) == Len(a) < 3

DiffPathOf(a) == a[Len(a) - 1]
Files(a) == SubSeq(a, 1, Len(a) - 2)
Renders(a) == SubSeq(Files(a), 1, Min(NumRenders, Len(Files(a))))
References(a) == SubSeq(Files(a), NumRenders + 1, Len(Files(a)))

----------------------------------------------------------------------------
(* The fields of an entry, as the loop body reads them *)

RenderIndex(entry) == Get(entry.renderIndex, -1)
ReferenceIndex(entry) == Get(entry.referenceIndex, -1)
BBox(entry) == Get(entry.bbox, <<0, 0, 0, 0>>)
\* Mutant: a missing severity defaults to "high".
SeverityDefaultHigh(entry) == Get(entry.severity, "high")

Severity(entry) == Get(entry.severity, "low")

\* multi: raw_issues = entry.get("issues") or entry.get("issue") or []
RawIssues(entry) ==
    IF entry.issues.present /\ Truthy(entry.issues.v) THEN entry.issues.v
    ELSE IF entry.issue.present /\ Truthy(entry.issue.v) THEN entry.issue.v
    ELSE ListVal(<<>>)

MultiIssues(entry) == AsList(RawIssues(entry))

\* single: issues = entry.get("issues", []), wrapped in a list when it is none
SingleIssues(entry) == AsList(Get(entry.issues, ListVal(<<>>)))

\* colors.get(severity, "red")
SeverityColor(severity) ==
    CASE severity = "low" -> "green"
      [] severity = "medium" -> "orange"
      [] severity = "high" -> "red"
      [] OTHER -> "red"

\* Mutant: the upper range checks are off by one.
OutOfRangeLax(r, f, renders, references) ==
    r < 0 \/ r > Len(renders) \/ f < 0 \/ f > Len(references)

OutOfRange(r, f, renders, references) ==
    r < 0 \/ r >= Len(renders) \/ f < 0 \/ f >= Len(references)

\* Mutant: the file name leaves out the entry's position.
OutNameNoIdx(i, r, f) ==
    "annot_r" \o ToString(r) \o "_ref" \o ToString(f) \o ".png"

OutName(i, r, f) ==
    "annot_" \o ToString(i) \o "_r" \o ToString(r) \o "_ref" \o ToString(f) \o ".png"

----------------------------------------------------------------------------
(* Label placement *)

Label(text, tx, ty, size, fill, pad) ==
    [text |-> text, tx |-> tx, ty |-> ty, tw |-> size[1], th |-> size[2],
     fill |-> fill,
     bg |-> <<tx - pad, ty - pad, tx + size[1] + pad, ty + size[2] + pad>>]

\* multi: the loop over issues, y_cursor carried from one label to the next
RECURSIVE StackLabels(_, _, _, _)
StackLabels(issues, bbox, y_cursor, size) ==
    IF issues = <<>> THEN <<>>
    ELSE LET issue == Head(issues) IN
         IF issue = "" THEN StackLabels(Tail(issues), bbox, y_cursor, size)
         ELSE LET th == size[issue][2]
                  tx == bbox[1]
                  above == y_cursor - th
                  ty == IF above < 0 THEN bbox[2] + bbox[4] + PADDING ELSE above
              IN <<Label(issue, tx, ty, size[issue], "black", PADDING)>>
                 \o StackLabels(Tail(issues), bbox, ty - PADDING, size)

MultiLabels(entry, size) ==
    StackLabels(MultiIssues(entry), BBox(entry), BBox(entry)[2] - PADDING, size)

\* single: only the first issue, coloured by severity
SingleLabels(entry, size) ==
    LET issues == SingleIssues(entry)
        text == IF issues # <<>> THEN issues[1] ELSE ""
    IN IF text = "" THEN <<>>
       ELSE LET bbox == BBox(entry)
                th == size[text][2]
                tx == bbox[1]
                above == bbox[2] - th - LabelGap
                ty == IF above < 0 THEN bbox[2] + bbox[4] + LabelGap ELSE above
            IN <<Label(text, tx, ty, size[text], SeverityColor(Severity(entry)), BgPad)>>

Labels(v, entry, size) ==
    IF v = "multi" THEN MultiLabels(entry, size) ELSE SingleLabels(entry, size)

CanvasSize(v) == IF v = "multi" THEN <<THUMB * 2, THUMB>> ELSE <<THUMB * 2, THUMB * 2>>

\* The file that saving the canvas of entry i leaves on disk.
Output(v, i, entry, size, run) ==
    [name |-> OutName(i, RenderIndex(entry), ReferenceIndex(entry)),
     kind |-> "image", run |-> run, src |-> i, canvas |-> CanvasSize(v),
     mode |-> "RGB", labels |-> Labels(v, entry, size)]

\* Image.open(list[i]): the index exists and the path holds an image
CanOpen(list, i, kind, d) ==
    PyHas(list, i) /\ KindAt(PyGet(list, i), kind, d) = "image"

----------------------------------------------------------------------------
(* The steps of main() *)

Crash(why) ==
    /\ pc' = "done"
    /\ status' = 1
    /\ error' = why

CheckArgs ==
    /\ pc = "start"
    /\ IF UsageError(args)
         THEN /\ stdout' = Append(stdout, "Usage")
              /\ Crash("usage")
         ELSE /\ pc' = "clear"
              /\ UNCHANGED <<status, error, stdout>>
    /\ UNCHANGED <<variant, args, outKind, dir, diffDoc, textSize, idx, entries,
                   runNo, before>>

\* Mutant: the directory is created if missing, but never emptied.
ClearKeepsFiles ==
    /\ pc = "clear"
    /\ IF outKind = "file"
         THEN /\ Crash("mkdir")
              /\ UNCHANGED <<outKind, dir>>
         ELSE /\ outKind' = "dir"
              /\ dir' = dir
              /\ pc' = "load"
              /\ UNCHANGED <<status, error>>
    /\ UNCHANGED <<variant, args, diffDoc, textSize, idx, entries, stdout,
                   runNo, before>>

\* Mutant: the directory is removed when it exists and created only when it does not.
ClearNoRecreate ==
    /\ pc = "clear"
    /\ IF outKind = "file"
         THEN /\ Crash("rmtree")
              /\ UNCHANGED <<outKind, dir>>
         ELSE /\ outKind' = (IF outKind = "dir" THEN "absent" ELSE "dir")
              /\ dir' = {}
              /\ pc' = "load"
              /\ UNCHANGED <<status, error>>
    /\ UNCHANGED <<variant, args, diffDoc, textSize, idx, entries, stdout,
                   runNo, before>>

\* if out_dir.exists(): shutil.rmtree(out_dir); out_dir.mkdir(parents=True, exist_ok=True)
ClearOutput ==
    /\ pc = "clear"
    /\ IF outKind = "file"
         THEN /\ Crash("rmtree")
              /\ UNCHANGED <<outKind, dir>>
         ELSE /\ outKind' = "dir"
              /\ dir' = {}
              /\ pc' = "load"
              /\ UNCHANGED <<status, error>>
    /\ UNCHANGED <<variant, args, diffDoc, textSize, idx, entries, stdout,
                   runNo, before>>

\* diff = json.loads(diff_path.read_bytes()); entries = diff.get("differences", [])
LoadDiff ==
    /\ pc = "load"
    /\ LET k == KindAt(DiffPathOf(args), outKind, dir) IN
         IF k = "json"
           THEN /\ entries' = diffDoc
                /\ idx' = 0
                /\ pc' = "loop"
                /\ UNCHANGED <<status, error>>
           ELSE /\ Crash(IF k = "none" THEN "diff-missing" ELSE "diff-invalid")
                /\ UNCHANGED <<entries, idx>>
    /\ UNCHANGED <<variant, args, outKind, dir, diffDoc, textSize, stdout,
                   runNo, before>>

\* if r < 0 or r >= len(renders) or f < 0 or f >= len(references): continue
SkipEntry ==
    /\ pc = "loop"
    /\ idx < Len(entries)
    /\ LET entry == entries[idx + 1] IN
         OutOfRange(RenderIndex(entry), ReferenceIndex(entry),
                    Renders(args), References(args))
    /\ idx' = idx + 1
    /\ UNCHANGED <<variant, args, outKind, dir, diffDoc, textSize, pc, entries,
                   status, error, stdout, runNo, before>>

\* Mutant: a failed load is recorded and the loop goes on to the next entry.
LoadFailContinue ==
    /\ pc = "loop"
    /\ idx < Len(entries)
    /\ LET entry == entries[idx + 1]
           r == RenderIndex(entry)
           f == ReferenceIndex(entry)
       IN /\ ~OutOfRange(r, f, Renders(args), References(args))
          /\ ~(CanOpen(Renders(args), r, outKind, dir)
               /\ CanOpen(References(args), f, outKind, dir))
    /\ error' = "image"
    /\ status' = 1
    /\ idx' = idx + 1
    /\ UNCHANGED <<variant, args, outKind, dir, diffDoc, textSize, pc, entries,
                   stdout, runNo, before>>

\* Image.open raises: the exception is not caught and ends the process
LoadFail ==
    /\ pc = "loop"
    /\ idx < Len(entries)
    /\ LET entry == entries[idx + 1]
           r == RenderIndex(entry)
           f == ReferenceIndex(entry)
       IN /\ ~OutOfRange(r, f, Renders(args), References(args))
          /\ ~(CanOpen(Renders(args), r, outKind, dir)
               /\ CanOpen(References(args), f, outKind, dir))
          /\ Crash(IF PyHas(Renders(args), r) /\ PyHas(References(args), f)
                     THEN "image" ELSE "index")
    /\ UNCHANGED <<variant, args, outKind, dir, diffDoc, textSize, idx, entries,
                   stdout, runNo, before>>

\* load, composite, label, save
Annotate ==
    /\ pc = "loop"
    /\ idx < Len(entries)
    /\ LET entry == entries[idx + 1]
           r == RenderIndex(entry)
           f == ReferenceIndex(entry)
           out == Output(variant, idx, entry, textSize, runNo)
       IN /\ ~OutOfRange(r, f, Renders(args), References(args))
          /\ CanOpen(Renders(args), r, outKind, dir)
          /\ CanOpen(References(args), f, outKind, dir)
          /\ IF outKind = "dir"
               THEN /\ dir' = {fl \in dir : fl.name # out.name} \cup {out}
                    /\ idx' = idx + 1
                    /\ UNCHANGED <<pc, status, error>>
               ELSE /\ Crash("save")
                    /\ UNCHANGED <<dir, idx>>
    /\ UNCHANGED <<variant, args, outKind, diffDoc, textSize, entries, stdout,
                   runNo, before>>

\* the loop is exhausted and main() returns
Finish ==
    /\ pc = "loop"
    /\ idx = Len(entries)
    /\ pc' = "done"
    /\ status' = 0
    /\ UNCHANGED <<variant, args, outKind, dir, diffDoc, textSize, idx, entries,
                   error, stdout, runNo, before>>

\* the script is run a second time with the same command line
Rerun ==
    /\ pc = "done"
    /\ runNo = 1
    /\ runNo' = 2
    /\ before' = [kind |-> outKind, files |-> dir]
    /\ pc' = "start"
    /\ idx' = 0
    /\ entries' = <<>>
    /\ status' = 0
    /\ error' = "none"
    /\ stdout' = <<>>
    /\ UNCHANGED <<variant, args, outKind, dir, diffDoc, textSize>>

----------------------------------------------------------------------------
(* Inputs *)

SeqsUpTo(S, n) == UNION {[1..k -> S] : k \in 0..n}

LabelTexts == {"bad UV", "missing texture"}
IssueTexts == {""} \cup LabelTexts
Sizes == {<<60, 12>>, <<90, 24>>}

IndexPairs ==
    {<<Some(0), Some(0)>>, <<Some(1), Some(0)>>, <<Some(0), Some(1)>>,
     <<Some(NumRenders), Some(0)>>, <<NoInt, Some(0)>>, <<Some(0), Some(-1)>>}

RunEntries ==
    {[renderIndex |-> p[1], referenceIndex |-> p[2],
      issues |-> Some(ListVal(<<"missing texture">>)), issue |-> NoIssues,
      bbox |-> Some(<<10, 10, 50, 50>>), severity |-> Some("high")] : p \in IndexPairs}

BadImages == {GoneImage, OutPath("annot_0_r0_ref0.png")}
BadPositions == {2, NumRenders + 1}
DiffPaths == {GoodDiff, BadDiff, GoneDiff, OutPath("diff.json")}

FileLists ==
    UNION {{[i \in 1..n |-> IF i = b THEN p ELSE GoodImage] :
              b \in {0} \cup (BadPositions \cap 1..n), p \in BadImages} :
           n \in 0..(NumRenders + MaxRefs)}

ArgLists ==
    {<<>>, <<OutDirPath>>} \cup {fs \o <<d, OutDirPath>> : fs \in FileLists, d \in DiffPaths}

PriorDirs ==
    {{}, {Stale("old.png", "image")},
     {Stale("annot_0_r0_ref0.png", "image"), Stale("diff.json", "json")}}

IssuesVals ==
    {NoIssues} \cup {Some(StrVal(s)) : s \in IssueTexts}
      \cup {Some(ListVal(l)) : l \in SeqsUpTo(IssueTexts, MaxIssues)}
IssueVals ==
    {NoIssues, Some(StrVal("")), Some(StrVal("bad UV")), Some(ListVal(<<"bad UV">>)),
     Some(ListVal(<<"missing texture">>))}
BoxVals == {NoBox, Some(<<10, 10, 50, 50>>), Some(<<0, 0, 10, 10>>), Some(<<5, 40, 20, 10>>)}
SevVals == {NoStr, Some("low"), Some("medium"), Some("high"), Some("critical")}

LabelEntries ==
    {[renderIndex |-> Some(0), referenceIndex |-> Some(0), issues |-> a, issue |-> b,
      bbox |-> c, severity |-> d] :
        a \in IssuesVals, b \in IssueVals, c \in BoxVals, d \in SevVals}

----------------------------------------------------------------------------
(* Whole runs of main(), once and then again, over varied command lines,   *)
(* diff reports and prior states of the output directory                   *)

Init ==
    /\ variant \in Variants
    /\ args \in ArgLists
    /\ outKind \in {"absent", "dir", "file"}
    /\ dir \in (IF outKind = "dir" THEN PriorDirs ELSE {{}})
    /\ diffDoc \in (IF Len(args) >= 2 /\ DiffPathOf(args) = GoodDiff
                      THEN SeqsUpTo(RunEntries, MaxEntries) ELSE {<<>>})
    /\ textSize = [t \in LabelTexts |-> <<90, 24>>]
    /\ pc = "start"
    /\ idx = 0
    /\ entries = <<>>
    /\ status = 0
    /\ error = "none"
    /\ stdout = <<>>
    /\ runNo = 1
    /\ before = [kind |-> outKind, files |-> dir]

Next ==
    \/ CheckArgs
    \/ ClearOutput
    \/ LoadDiff
    \/ SkipEntry
    \/ LoadFail
    \/ Annotate
    \/ Finish
    \/ Rerun

Spec == Init /\ [][Next]_vars

(* The loop body on one in-range entry, over varied issue forms, boxes,    *)
(* severities and font measures: the state once the output directory is    *)
(* cleared and the diff report is loaded                                   *)

InitLabel ==
    /\ variant \in Variants
    /\ args = [i \in 1..(NumRenders + 1) |-> GoodImage] \o <<GoodDiff, OutDirPath>>
    /\ outKind = "dir"
    /\ dir = {}
    /\ diffDoc \in {<<e>> : e \in LabelEntries}
    /\ textSize \in [LabelTexts -> Sizes]
    /\ pc = "loop"
    /\ idx = 0
    /\ entries = diffDoc
    /\ status = 0
    /\ error = "none"
    /\ stdout = <<>>
    /\ runNo = 1
    /\ before = [kind |-> outKind, files |-> dir]

NextLabel ==
    \/ Annotate
    \/ Finish

SpecLabel == InitLabel /\ [][NextLabel]_vars

----------------------------------------------------------------------------
(* Vocabulary of the properties *)

Positions == 0..(Len(entries) - 1)

\* 0 <= r < len(renders) and 0 <= f < len(references)
InRange(entry) ==
    /\ RenderIndex(entry) \in 0..(Len(Renders(args)) - 1)
    /\ ReferenceIndex(entry) \in 0..(Len(References(args)) - 1)

\* the files this run wrote for the entry at position i
FilesOf(i) == {fl \in dir : fl.run = runNo /\ fl.src = i}

Completed == pc = "done" /\ status = 0 /\ error = "none"

ClaimedName(i, r, f) ==
    "annot_" \o ToString(i) \o "_r" \o ToString(r) \o "_ref" \o ToString(f) \o ".png"

KnownSeverities == {"low", "medium", "high"}

----------------------------------------------------------------------------
(* Properties of whole runs (Spec) *)

\* C1: after a run that completes, every in-range entry at position i has
\* exactly one output file, named annot_{i}_r{r}_ref{f}.png with i its
\* position in the original `differences`, skipped entries counted.
C1_OneFilePerValidEntry ==
    Completed =>
        \A i \in Positions :
            LET entry == entries[i + 1] IN
            InRange(entry) =>
                /\ Cardinality(FilesOf(i)) = 1
                /\ \A fl \in FilesOf(i) :
                       fl.name = ClaimedName(i, RenderIndex(entry), ReferenceIndex(entry))

C1_Witness ==
    /\ Completed
    /\ Len(entries) >= 2
    /\ ~InRange(entries[1])
    /\ InRange(entries[2])
    /\ "annot_1_r0_ref0.png" \in Names(dir)
    /\ "annot_0_r0_ref0.png" \notin Names(dir)

\* C2: an out-of-range entry produces no file and raises no error: the run
\* never terminates on such an entry, and a run whose only defects are
\* out-of-range indices exits with status 0 having written one file for
\* every in-range entry.
OnlyRangeDefects ==
    /\ Len(args) >= 3
    /\ before.kind # "file"
    /\ DiffPathOf(args) = GoodDiff
    /\ \A k \in 1..Len(diffDoc) :
           InRange(diffDoc[k]) =>
               /\ Renders(args)[RenderIndex(diffDoc[k]) + 1] = GoodImage
               /\ References(args)[ReferenceIndex(diffDoc[k]) + 1] = GoodImage

C2_SkipIsSilent ==
    /\ \A i \in Positions : ~InRange(entries[i + 1]) => FilesOf(i) = {}
    /\ (pc = "done" /\ error \in {"image", "index", "save"}) => InRange(entries[idx + 1])
    /\ (pc = "done" /\ OnlyRangeDefects) =>
           /\ status = 0
           /\ error = "none"
           /\ entries = diffDoc
           /\ \A i \in Positions : InRange(entries[i + 1]) => Cardinality(FilesOf(i)) = 1

C2_Witness ==
    /\ Completed
    /\ Len(entries) >= 2
    /\ RenderIndex(entries[1]) >= Len(Renders(args))
    /\ InRange(entries[2])
    /\ FilesOf(0) = {}
    /\ FilesOf(1) # {}

\* C3: after a run that completes the output directory exists and holds
\* exactly the files this run wrote for its in-range entries: nothing from
\* before the run survives, and the directory is empty when no entry is in range.
C3_FreshDirectory ==
    Completed =>
        /\ outKind = "dir"
        /\ \A fl \in dir :
               /\ fl.run = runNo
               /\ fl.src \in Positions
               /\ InRange(entries[fl.src + 1])
        /\ ((\A i \in Positions : ~InRange(entries[i + 1])) => dir = {})

C3_Witness ==
    /\ Completed
    /\ runNo = 1
    /\ before.files # {}
    /\ dir # {}

\* C4: with fewer than 3 arguments the run ends with a usage message and
\* status 1, and the output directory is as it was: not removed, not
\* created, nothing written, the diff report never loaded.
C4_UsageNoChange ==
    Len(args) < 3 =>
        /\ pc \in {"start", "done"}
        /\ outKind = before.kind
        /\ dir = before.files
        /\ entries = <<>>
        /\ (pc = "done" => status = 1 /\ error = "usage" /\ stdout = <<"Usage">>)

C4_Witness ==
    /\ Len(args) < 3
    /\ pc = "done"
    /\ status = 1
    /\ outKind = "dir"
    /\ dir # {}

\* C5: the second of two successive runs with the same command line leaves
\* the same set of file names in the output directory as the first did.
C5_RerunSameNames ==
    (runNo = 2 /\ pc = "done") => Names(dir) = Names(before.files)

C5_Witness ==
    /\ runNo = 2
    /\ pc = "done"
    /\ error = "image"
    /\ Names(dir) # {}

\* C9: when loading an image of the in-range entry at position k fails the
\* process ends there with a non-zero status, and the output directory
\* holds one file for each in-range entry before k and nothing else.
C9_AbortAtFirstLoadError ==
    (pc = "done" /\ error = "image") =>
        /\ status # 0
        /\ idx \in Positions
        /\ InRange(entries[idx + 1])
        /\ \A i \in Positions :
               Cardinality(FilesOf(i)) = (IF i < idx /\ InRange(entries[i + 1]) THEN 1 ELSE 0)
        /\ \A fl \in dir : fl.run = runNo /\ fl.src \in Positions

C9_Witness ==
    /\ pc = "done"
    /\ error = "image"
    /\ idx >= 1
    /\ FilesOf(0) # {}
    /\ before.files # {}

\* C10: when a run with at least 3 arguments ends because the diff report
\* is missing or is not valid JSON, the output directory exists and is empty.
C10_ClearedBeforeDiffRead ==
    (pc = "done" /\ error \in {"diff-missing", "diff-invalid"}) =>
        /\ Len(args) >= 3
        /\ outKind = "dir"
        /\ dir = {}

C10_Witness ==
    /\ pc = "done"
    /\ error = "diff-invalid"
    /\ before.kind = "dir"
    /\ before.files # {}
    /\ dir = {}

----------------------------------------------------------------------------
(* Properties of the labels of one entry (SpecLabel) *)

\* the entry of SpecLabel with its issue text given as "issues": [s]
Canonical(entry, s) == [entry EXCEPT !.issues = Some(ListVal(<<s>>)), !.issue = NoIssues]

\* C6: for a non-empty string s, an entry with "issues": s, with "issue": s
\* or with "issue": [s] is labelled as the entry with "issues": [s] is.
C6_IssueFormsAgree ==
    \A fl \in dir : \A s \in LabelTexts :
        LET entry == entries[fl.src + 1] IN
        (\/ entry.issues = Some(StrVal(s))
         \/ (~entry.issues.present /\ entry.issue = Some(StrVal(s)))
         \/ (~entry.issues.present /\ entry.issue = Some(ListVal(<<s>>))))
        => fl.labels = Labels(variant, Canonical(entry, s), textSize)

\* C7 as stated: in the variant that colours by severity, a label of an
\* entry whose severity is absent or unrecognised has the colour of "low".
C7_UnrecognisedIsLow ==
    \A fl \in dir :
        LET entry == entries[fl.src + 1] IN
        (/\ variant = "single"
         /\ fl.labels # <<>>
         /\ (~entry.severity.present \/ entry.severity.v \notin KnownSeverities))
        => fl.labels[1].fill = "green"

\* C7 as amended: the label of an entry without severity has the colour of
\* an entry with severity "low"; the label of an entry whose severity is
\* given but is none of low, medium, high is red.
C7_AbsentIsLowUnknownIsRed ==
    \A fl \in dir :
        LET entry == entries[fl.src + 1] IN
        (variant = "single" /\ fl.labels # <<>>) =>
            /\ ~entry.severity.present => fl.labels[1].fill = "green"
            /\ entry.severity = Some("low") => fl.labels[1].fill = "green"
            /\ (entry.severity.present /\ entry.severity.v \notin KnownSeverities)
                   => fl.labels[1].fill = "red"

C7_Witness ==
    \E fl \in dir :
        /\ variant = "single"
        /\ fl.labels # <<>>
        /\ entries[fl.src + 1].severity = Some("critical")
        /\ fl.labels[1].fill = "red"

\* C8: in the multi-label variant every label is either above the box's top
\* edge and strictly higher than every earlier label of the entry, or, only
\* when the position above would have a negative top, below the box at
\* y + h + PADDING; no label overlaps the box's vertical extent or sits at
\* the position of an earlier label.
C8_LabelsAboveOrBelow ==
    \A fl \in dir :
        variant = "multi" =>
            LET box == BBox(entries[fl.src + 1])
                y == box[2]
                h == box[4]
                L == fl.labels
                cursor(k) == IF k = 1 THEN y - PADDING ELSE L[k - 1].ty - PADDING
                Above(k) == /\ L[k].ty + L[k].th <= y
                            /\ \A j \in 1..(k - 1) : L[k].ty < L[j].ty
                Below(k) == /\ L[k].ty = y + h + PADDING
                            /\ cursor(k) - L[k].th < 0
            IN \A k \in 1..Len(L) :
                   /\ Above(k) \/ Below(k)
                   /\ ~(L[k].ty < y + h /\ L[k].ty + L[k].th > y)
                   /\ \A j \in 1..(k - 1) : L[j].ty # L[k].ty

====
